---------------------------- MODULE Spec2Model ----------------------------
(***************************************************************************)
(* CRC-32C addon (src/src/crc32c.cpp): the slicing-by-8 lookup table, the  *)
(* software engine swCrc32c, the calculateCrc binding and module init.     *)
(*                                                                         *)
(* Unsigned integers are kept as tuples of bytes, least-significant byte   *)
(* first: a uint32_t is a 4-tuple, a uint64_t an 8-tuple.  Every C         *)
(* operator the code uses on them (^, >>, &, the widening and narrowing    *)
(* conversions) is an operator on these tuples, at the width the C         *)
(* expression has.                                                         *)
(***************************************************************************)
EXTENDS Integers, Sequences, FiniteSets, TLC

VARIABLES
    host,         \* the build's platform: byte order and cpuid's SSE 4.2 bit
    crc32cTable,  \* static uint32_t crc32cTable[8][256]
    pc,           \* per environment: where it is in init()
    pos,          \* per environment: initCrcTable's loop index i
    call,         \* the last calculateCrc call: arguments and outcome
    prev,         \* the call before it, when `call` continued its stream
    script        \* the calls a test run has yet to make

vars == <<host, crc32cTable, pc, pos, call, prev, script>>

-----------------------------------------------------------------------------
(* Bytes and fixed-width words                                             *)

Byte == 0..255

\* a ^ b on n-bit operands, bit by bit
RECURSIVE XorBits(_, _, _)
XorBits(a, b, n) ==
    IF n = 0 THEN 0
    ELSE ((a + b) % 2) + 2 * XorBits(a \div 2, b \div 2, n - 1)

\* a ^ b on 4-bit operands, tabulated
XorNibble == [a \in 0..15 |-> [b \in 0..15 |-> XorBits(a, b, 4)]]

\* a ^ b on bytes
Xor8(a, b) ==
    XorNibble[a % 16][b % 16] + 16 * XorNibble[a \div 16][b \div 16]

\* a ^ b on uint32_t
Xor32(a, b) ==
    <<Xor8(a[1], b[1]), Xor8(a[2], b[2]), Xor8(a[3], b[3]), Xor8(a[4], b[4])>>

\* a ^ b on uint64_t
Xor64(a, b) ==
    <<Xor8(a[1], b[1]), Xor8(a[2], b[2]), Xor8(a[3], b[3]), Xor8(a[4], b[4]),
      Xor8(a[5], b[5]), Xor8(a[6], b[6]), Xor8(a[7], b[7]), Xor8(a[8], b[8])>>

\* w >> 8 on uint32_t
Shr8(w) == <<w[2], w[3], w[4], 0>>

\* w >> 8 on uint64_t
Shr8of64(w) == <<w[2], w[3], w[4], w[5], w[6], w[7], w[8], 0>>

\* w >> 1 on uint32_t
Shr1(w) ==
    <<(w[1] \div 2) + 128 * (w[2] % 2), (w[2] \div 2) + 128 * (w[3] % 2),
      (w[3] \div 2) + 128 * (w[4] % 2), w[4] \div 2>>

\* (uint32_t) of an integer below 256
U32(b) == <<b, 0, 0, 0>>

\* uint32_t -> uint64_t (zero extension)
Widen(w) == <<w[1], w[2], w[3], w[4], 0, 0, 0, 0>>

\* (uint32_t) of a uint64_t
Narrow(w) == <<w[1], w[2], w[3], w[4]>>

\* a char converted to uint64_t: char is signed on the x86 targets, so a
\* byte of 0x80 and above sign-extends
CharTo64(c) == IF c >= 128 THEN <<c, 255, 255, 255, 255, 255, 255, 255>>
               ELSE <<c, 0, 0, 0, 0, 0, 0, 0>>

\* 0xFFFFFFFF as the uint64_t operand of crc ^= 0xFFFFFFFF
Ones64 == <<255, 255, 255, 255, 0, 0, 0, 0>>

\* #define CRC32C_POLYNOMIAL 0x82f63b78
CRC32C_POLYNOMIAL == <<\h78, \h3b, \hf6, \h82>>

-----------------------------------------------------------------------------
(* initCrcTable                                                            *)

\* crc = crc & 1 ? (crc >> 1) ^ CRC32C_POLYNOMIAL : crc >> 1
PolyStep(crc) ==
    IF crc[1] % 2 = 1 THEN Xor32(Shr1(crc), CRC32C_POLYNOMIAL) ELSE Shr1(crc)

\* the eight unrolled steps of the first loop's body, from crc = i
Row0Entry(i) ==
    PolyStep(PolyStep(PolyStep(PolyStep(
    PolyStep(PolyStep(PolyStep(PolyStep(U32(i)))))))))

\* the static array before init: zero-initialised storage
ZeroTable == [j \in 0..7 |-> [i \in Byte |-> U32(0)]]

\* first loop, iterations lo..hi: crc32cTable[0][i] = crc
Loop1Cols(table, lo, hi) ==
    [table EXCEPT ![0] =
        [i \in Byte |-> IF lo <= i /\ i <= hi THEN Row0Entry(i) ELSE @[i]]]

\* crc = crc32cTable[0][crc & 0xff] ^ (crc >> 8)
RowStep(table, crc) == Xor32(table[0][crc[1]], Shr8(crc))

\* the inner loop of the second loop: the value stored in crc32cTable[j][i]
RECURSIVE RowEntry(_, _, _)
RowEntry(table, j, i) ==
    IF j = 0 THEN table[0][i] ELSE RowStep(table, RowEntry(table, j - 1, i))

\* second loop, iterations lo..hi: crc32cTable[j][i] = crc for j = 1..7
Loop2Cols(table, lo, hi) ==
    [j \in 0..7 |->
        IF j = 0 THEN table[0]
        ELSE [i \in Byte |->
                 IF lo <= i /\ i <= hi THEN RowEntry(table, j, i)
                 ELSE table[j][i]]]

\* a whole run of initCrcTable from the given array contents
initCrcTable(table) == Loop2Cols(Loop1Cols(table, 0, 255), 0, 255)

\* the array once initCrcTable has run on the zero-initialised storage
BuiltTable == initCrcTable(ZeroTable)

-----------------------------------------------------------------------------
(* The platform                                                            *)

\* The builds cpuid() distinguishes: an x86 build is little-endian and
\* reports bit 20 of ECX, set or clear; any other build takes the #else
\* branch, which zeroes reg[], and may be big-endian.
Hosts ==
    { [bigEndian |-> FALSE, sse42 |-> TRUE],
      [bigEndian |-> FALSE, sse42 |-> FALSE],
      [bigEndian |-> TRUE,  sse42 |-> FALSE] }

\* return ((reg[2] >> 20) & 1) == 1
isSSE42Available == host.sse42

-----------------------------------------------------------------------------
(* swCrc32c                                                                *)

\* A char pointer with the bytes it points at: addr is the address of
\* bytes[1].  Only addr modulo 8 matters to the code.
Deref(buf, next) == buf.bytes[next - buf.addr + 1]

\* *(uint64_t *) next: the eight bytes at next as a host of the given byte
\* order lays out a 64-bit integer
Load64(bigEndian, buf, next) ==
    IF bigEndian
    THEN <<Deref(buf, next + 7), Deref(buf, next + 6), Deref(buf, next + 5),
           Deref(buf, next + 4), Deref(buf, next + 3), Deref(buf, next + 2),
           Deref(buf, next + 1), Deref(buf, next)>>
    ELSE <<Deref(buf, next), Deref(buf, next + 1), Deref(buf, next + 2),
           Deref(buf, next + 3), Deref(buf, next + 4), Deref(buf, next + 5),
           Deref(buf, next + 6), Deref(buf, next + 7)>>

\* crc = crc32cTable[0][(crc ^ *next++) & 0xff] ^ (crc >> 8); len--
\* s holds the locals crc, next, len; lookups and loads count the reads of
\* crc32cTable and of the buffer made so far.  The index is the low byte of
\* the 64-bit XOR, which is the XOR of the operands' low bytes.
ByteStep(buf, s) ==
    LET idx == Xor8(s.crc[1], CharTo64(Deref(buf, s.next))[1])
    IN  [crc     |-> Xor64(Widen(crc32cTable[0][idx]), Shr8of64(s.crc)),
         next    |-> s.next + 1,
         len     |-> s.len - 1,
         lookups |-> s.lookups + 1,
         loads   |-> s.loads + 1]

\* the 8-bytes-at-a-time body with the table rows taken in ascending order
WordStepRowsAscending(bigEndian, buf, s) ==
    LET c == Xor64(s.crc, Load64(bigEndian, buf, s.next))
    IN  [crc     |-> Widen(
                       Xor32(crc32cTable[0][c[1]], Xor32(crc32cTable[1][c[2]],
                       Xor32(crc32cTable[2][c[3]], Xor32(crc32cTable[3][c[4]],
                       Xor32(crc32cTable[4][c[5]], Xor32(crc32cTable[5][c[6]],
                       Xor32(crc32cTable[6][c[7]], crc32cTable[7][c[8]])))))))),
         next    |-> s.next + 8,
         len     |-> s.len - 8,
         lookups |-> s.lookups + 8,
         loads   |-> s.loads + 8]

\* the body of the 8-bytes-at-a-time loop
WordStep(bigEndian, buf, s) ==
    LET c == Xor64(s.crc, Load64(bigEndian, buf, s.next))
    IN  [crc     |-> Widen(
                       Xor32(crc32cTable[7][c[1]], Xor32(crc32cTable[6][c[2]],
                       Xor32(crc32cTable[5][c[3]], Xor32(crc32cTable[4][c[4]],
                       Xor32(crc32cTable[3][c[5]], Xor32(crc32cTable[2][c[6]],
                       Xor32(crc32cTable[1][c[7]], crc32cTable[0][c[8]])))))))),
         next    |-> s.next + 8,
         len     |-> s.len - 8,
         lookups |-> s.lookups + 8,
         loads   |-> s.loads + 8]

\* while (len && ((uintptr_t) next & 7) != 0)
RECURSIVE AlignLoop(_, _)
AlignLoop(buf, s) ==
    IF s.len # 0 /\ s.next % 8 # 0 THEN AlignLoop(buf, ByteStep(buf, s)) ELSE s

\* while (len >= 8)
RECURSIVE BulkLoop(_, _, _)
BulkLoop(bigEndian, buf, s) ==
    IF s.len >= 8 THEN BulkLoop(bigEndian, buf, WordStep(bigEndian, buf, s))
    ELSE s

\* while (len)
RECURSIVE TailLoop(_, _)
TailLoop(buf, s) ==
    IF s.len # 0 THEN TailLoop(buf, ByteStep(buf, s)) ELSE s

\* swCrc32c's locals on entry
Entry(initialCrc, buf, len) ==
    [crc |-> Widen(initialCrc), next |-> buf.addr, len |-> len,
     lookups |-> 0, loads |-> 0]

\* an empty buffer answered with 0, as the comment on the early return reads
swRunOnEmptyZero(bigEndian, initialCrc, buf, len) ==
    IF len = 0 THEN Entry(U32(0), buf, len)
    ELSE LET s1 == [Entry(initialCrc, buf, len) EXCEPT !.crc = Xor64(@, Ones64)]
             s2 == TailLoop(buf, BulkLoop(bigEndian, buf, AlignLoop(buf, s1)))
         IN  [s2 EXCEPT !.crc = Xor64(@, Ones64)]

\* swCrc32c's locals when it returns, built for a host of the given byte
\* order
swRunOn(bigEndian, initialCrc, buf, len) ==
    IF len = 0 THEN Entry(initialCrc, buf, len)
    ELSE LET s1 == [Entry(initialCrc, buf, len) EXCEPT !.crc = Xor64(@, Ones64)]
             s2 == TailLoop(buf, BulkLoop(bigEndian, buf, AlignLoop(buf, s1)))
         IN  [s2 EXCEPT !.crc = Xor64(@, Ones64)]

\* swCrc32c's locals when it returns on this host
swRun(initialCrc, buf, len) == swRunOn(host.bigEndian, initialCrc, buf, len)

\* uint32_t swCrc32c(uint32_t initialCrc, const char *buf, size_t len)
swCrc32c(initialCrc, buf, len) == Narrow(swRun(initialCrc, buf, len).crc)

-----------------------------------------------------------------------------
(* hwCrc32c (crc32c_sse42.cpp): the CRC-32C of the bytes as the processor's*)
(* crc32 instruction accumulates it, one bit at a time over the reflected  *)
(* Castagnoli polynomial, between the two complements.                     *)

HwPolynomial == <<\h78, \h3b, \hf6, \h82>>

HwBitStep(crc) ==
    IF crc[1] % 2 = 1 THEN Xor32(Shr1(crc), HwPolynomial) ELSE Shr1(crc)

HwByte(crc, b) ==
    LET c == <<Xor8(crc[1], b), crc[2], crc[3], crc[4]>>
    IN  HwBitStep(HwBitStep(HwBitStep(HwBitStep(
        HwBitStep(HwBitStep(HwBitStep(HwBitStep(c))))))))

AllOnes == <<255, 255, 255, 255>>

\* one byte after another, in address order, whatever the alignment
RECURSIVE HwLoop(_, _)
HwLoop(buf, s) ==
    IF s.len = 0 THEN s
    ELSE HwLoop(buf, [crc  |-> HwByte(s.crc, Deref(buf, s.next)),
                      next |-> s.next + 1,
                      len  |-> s.len - 1])

hwCrc32c(initialCrc, buf, len) ==
    Xor32(HwLoop(buf, [crc  |-> Xor32(initialCrc, AllOnes),
                       next |-> buf.addr,
                       len  |-> len]).crc,
          AllOnes)

-----------------------------------------------------------------------------
(* JavaScript values and the calculateCrc binding                          *)

JsBoolean(b)      == [type |-> "boolean", value |-> b]
JsNumber(n)       == [type |-> "number", value |-> n]
JsBuffer(a, data) == [type |-> "buffer", addr |-> a, bytes |-> data]
JsString(t)       == [type |-> "string", text |-> t]
JsObject          == [type |-> "object"]
JsUndefined       == [type |-> "undefined"]

\* info[k]: undefined beyond the arguments passed
Arg(info, k) == IF k < Len(info) THEN info[k + 1] ELSE JsUndefined

\* Napi::String::Utf8Value(): the UTF-8 bytes of the string's code points
\* (code points below 0x800 here)
RECURSIVE Utf8Value(_)
Utf8Value(text) ==
    IF text = <<>> THEN <<>>
    ELSE LET c == Head(text)
         IN  (IF c < 128 THEN <<c>>
              ELSE <<192 + (c \div 64), 128 + (c % 64)>>) \o Utf8Value(Tail(text))

\* a dispatcher that asks the capability flag before taking the hardware
\* path
SelectEngineWithFallback(useHardwareCrc) ==
    IF useHardwareCrc /\ isSSE42Available THEN "hw" ELSE "sw"

\* if (useHardwareCrc) hwCrc32c(...) else swCrc32c(...)
SelectEngine(useHardwareCrc) == IF useHardwareCrc THEN "hw" ELSE "sw"

NoValue == <<>>

\* what a call leaves behind; `value` is the number returned, NoValue when
\* the call threw
Outcome(status, message, engine, initCrc, strInput, value, lookups, loads) ==
    [status |-> status, message |-> message, engine |-> engine,
     initCrc |-> initCrc, strInput |-> strInput, value |-> value,
     lookups |-> lookups, loads |-> loads]

Threw(message) ==
    Outcome("threw", message, "none", NoValue, NoValue, NoValue, 0, 0)

\* The values an uninitialised uint32_t local may hold when it is read:
\* whatever the stack slot held, for one the value the previous call left.
Uninitialised ==
    {U32(0), AllOnes} \cup (IF call.value # NoValue THEN {call.value} ELSE {})

\* What hwCrc32c returns: its checksum where the instruction exists;
\* executing it elsewhere is undefined, any value may come back.
HwResults(initCrc, buf, len) ==
    IF isSSE42Available THEN {hwCrc32c(initCrc, buf, len)}
    ELSE {U32(0), AllOnes, hwCrc32c(initCrc, buf, len)}

\* crc = hwCrc32c(...) / crc = swCrc32c(...) on a buffer argument
OnBuffer(useHardwareCrc, initCrc, buf) ==
    LET len == Len(buf.bytes)
    IN  IF SelectEngine(useHardwareCrc) = "hw"
        THEN { Outcome("returned", "", "hw", initCrc, NoValue, v, 0, 0) :
                   v \in HwResults(initCrc, buf, len) }
        ELSE LET s == swRun(initCrc, buf, len)
             IN  { Outcome("returned", "", "sw", initCrc, NoValue,
                           Narrow(s.crc), s.lookups, s.loads) }

\* the outcomes calculateCrc(info) can have
calculateCrc(info) ==
    IF Len(info) < 1
    THEN {Outcome("returned", "", "none", NoValue, NoValue, U32(0), 0, 0)}
    ELSE IF Len(info) > 3
    THEN {Threw("Invalid number of arguments!")}
    ELSE IF info[1].type # "boolean"
    THEN {Threw("useHardwareCrc isn't a boolean value as expected!")}
    ELSE IF Len(info) > 2 /\ info[3].type # "number"
    THEN {Threw("Initial CRC-32C is not an integer value as expected!")}
    ELSE
      LET useHardwareCrc == info[1].value
          initCrc == IF Len(info) > 2 THEN info[3].value ELSE U32(0)
          data == Arg(info, 1)
      IN  IF data.type = "buffer"
          THEN OnBuffer(useHardwareCrc, initCrc, data)
          ELSE IF data.type = "object"
          THEN {Threw("Cannot compute CRC-32C for objects!")}
          ELSE IF data.type = "string"
          THEN \* strInput is computed and never used; crc is returned unset
               { Outcome("returned", "", "none", initCrc,
                         Utf8Value(data.text), v, 0, 0) : v \in Uninitialised }
          ELSE \* As<Napi::String>().Utf8Value() of a non-string throws
               {Threw("A string was expected")}

-----------------------------------------------------------------------------
(* Module initialisation and the calls                                     *)

\* The environments (the main thread, a worker thread) that load the addon.
\* crc32cTable is one static array shared by all of them.
Envs == {"main", "worker"}

\* iterations of an initCrcTable loop taken in one step
ColsPerStep == 32

Min(a, b) == IF a < b THEN a ELSE b

NoCall ==
    [env |-> "none", info |-> <<>>, initFinished |-> FALSE,
     tableBuilt |-> FALSE] @@
    Outcome("none", "", "none", NoValue, NoValue, NoValue, 0, 0)

\* init() clearing the array before it rebuilds it
LoadClearingTable(e) ==
    /\ pc[e] = "unloaded"
    /\ pc' = [pc EXCEPT ![e] = "loop1"]
    /\ pos' = [pos EXCEPT ![e] = 0]
    /\ crc32cTable' = ZeroTable
    /\ UNCHANGED <<host, call, prev, script>>

\* init() is entered: initCrcTable() starts
Load(e) ==
    /\ pc[e] = "unloaded"
    /\ pc' = [pc EXCEPT ![e] = "loop1"]
    /\ pos' = [pos EXCEPT ![e] = 0]
    /\ UNCHANGED <<host, crc32cTable, call, prev, script>>

\* initCrcTable's first loop
Loop1(e) ==
    /\ pc[e] = "loop1"
    /\ LET hi == Min(pos[e] + ColsPerStep - 1, 255)
       IN  /\ crc32cTable' = Loop1Cols(crc32cTable, pos[e], hi)
           /\ pos' = [pos EXCEPT ![e] = IF hi = 255 THEN 0 ELSE hi + 1]
           /\ pc' = [pc EXCEPT ![e] = IF hi = 255 THEN "loop2" ELSE "loop1"]
    /\ UNCHANGED <<host, call, prev, script>>

\* initCrcTable's second loop; after it init() sets the exports
Loop2(e) ==
    /\ pc[e] = "loop2"
    /\ LET hi == Min(pos[e] + ColsPerStep - 1, 255)
       IN  /\ crc32cTable' = Loop2Cols(crc32cTable, pos[e], hi)
           /\ pos' = [pos EXCEPT ![e] = IF hi = 255 THEN 0 ELSE hi + 1]
           /\ pc' = [pc EXCEPT ![e] = IF hi = 255 THEN "ready" ELSE "loop2"]
    /\ UNCHANGED <<host, call, prev, script>>

\* init() setting the exports before it calls initCrcTable()
ExportedBeforeInit(e) == pc[e] # "unloaded"

\* exports["calculateCrc"] has been set in environment e
Exported(e) == pc[e] = "ready"

\* some environment's initCrcTable() has returned
InitFinished == \E e \in Envs : pc[e] = "ready"

\* environment e calls calculateCrc(info)
CalculateCrc(e, info) ==
    /\ Exported(e)
    /\ \E o \in calculateCrc(info) :
           call' = [env |-> e, info |-> info, initFinished |-> InitFinished,
                    tableBuilt |-> (crc32cTable = BuiltTable)] @@ o
    /\ UNCHANGED <<host, crc32cTable, pc, pos>>

\* a caller's call, on its own
Call(e, info) ==
    /\ CalculateCrc(e, info)
    /\ prev' = NoCall
    /\ UNCHANGED script

-----------------------------------------------------------------------------
(* Test data                                                               *)

\* longest buffer of a single scripted call
MaxLen == 17

\* longest stream checksummed in two chained calls
MaxStream == 17

\* buf's address modulo 8
AddrOffsets == 0..7

\* byte k of an endless stream: the digits "123456789" repeated, or a
\* sequence mixing bytes below and above 0x80
StreamByte(p, k) ==
    IF p = "digits" THEN 49 + ((k - 1) % 9) ELSE (k * 77 + 130) % 256

\* bytes off+1 .. off+n of stream p
RECURSIVE Stream(_, _, _)
Stream(p, off, n) ==
    IF n = 0 THEN <<>> ELSE Stream(p, off, n - 1) \o <<StreamByte(p, off + n)>>

Streams == {"digits", "mixed"}

\* 0xE3069283
CheckValue == <<\h83, \h92, \h06, \hE3>>

\* the initialCrc argument: left out, a number, or (in a script) the value
\* the call before returned
JsChained == [type |-> "chained"]

Seeds == {JsUndefined, JsNumber(AllOnes), JsNumber(CheckValue)}

\* a scripted call's arguments: calculateCrc(useHw, buffer[, seed])
BufferArgs(useHw, p, off, n, a, seed) ==
    LET buf == JsBuffer(a, Stream(p, off, n))
    IN  IF seed = JsUndefined THEN <<JsBoolean(useHw), buf>>
        ELSE <<JsBoolean(useHw), buf, seed>>

\* the arguments the binding is called with in the module's life
Arg0s == {JsBoolean(TRUE), JsBoolean(FALSE), JsNumber(U32(1))}

Datas ==
    { JsBuffer(0, <<>>), JsBuffer(0, Stream("digits", 0, 9)),
      JsBuffer(3, Stream("mixed", 0, 9)),
      JsString(Stream("digits", 0, 9)), JsString(<<97, 233>>), JsObject }

Arg2s == {JsNumber(AllOnes), JsString(<<48>>)}

BindingArgs ==
    {<<>>} \cup { <<a>> : a \in Arg0s }
           \cup { <<a, d>> : a \in Arg0s, d \in Datas }
           \cup { <<a, d, c>> : a \in Arg0s, d \in Datas, c \in Arg2s }
           \cup { <<JsBoolean(FALSE), JsObject, JsNumber(AllOnes), JsObject>> }

\* the arguments of a scripted call that continues a stream: its initialCrc
\* is the value the call before returned
Chained(info) == Len(info) > 2 /\ info[3] = JsChained

\* the next scripted call, seeded by itself
ScriptedCall(e) ==
    /\ script # <<>>
    /\ ~Chained(Head(script))
    /\ CalculateCrc(e, Head(script))
    /\ prev' = NoCall
    /\ script' = Tail(script)

\* the next scripted call, seeded by the value the last call returned
ChainedCall(e) ==
    /\ script # <<>>
    /\ Chained(Head(script))
    /\ call.status = "returned"
    /\ CalculateCrc(e, [Head(script) EXCEPT ![3] = JsNumber(call.value)])
    /\ prev' = call
    /\ script' = Tail(script)

-----------------------------------------------------------------------------
(* Specifications                                                          *)

\* the calls made while environments load the addon
LifeArgs ==
    { <<JsBoolean(FALSE), JsBuffer(0, <<>>)>>,
      <<JsBoolean(FALSE), JsBuffer(3, Stream("digits", 0, 9))>>,
      <<JsBoolean(TRUE), JsBuffer(0, Stream("mixed", 0, 9)), JsNumber(AllOnes)>>,
      <<JsBoolean(FALSE), JsString(<<97>>)>> }

\* The module's life: environments load the addon and call into it.
Init ==
    /\ host \in Hosts
    /\ crc32cTable = ZeroTable
    /\ pc = [e \in Envs |-> "unloaded"]
    /\ pos = [e \in Envs |-> 0]
    /\ call = NoCall
    /\ prev = NoCall
    /\ script = <<>>

Next ==
    \E e \in Envs :
        \/ Load(e)
        \/ Loop1(e)
        \/ Loop2(e)
        \/ \E info \in LifeArgs : Call(e, info)

Spec == Init /\ [][Next]_vars

\* The state once the main environment has loaded the addon
Loaded ==
    /\ host \in Hosts
    /\ crc32cTable = BuiltTable
    /\ pc = [e \in Envs |-> IF e = "main" THEN "ready" ELSE "unloaded"]
    /\ pos = [e \in Envs |-> 0]
    /\ call = NoCall
    /\ prev = NoCall

\* The engines on single buffers
InitEngine ==
    /\ Loaded
    /\ \/ \E h \in BOOLEAN, p \in Streams, n \in 0..MaxLen, a \in AddrOffsets,
             s \in Seeds : script = <<BufferArgs(h, p, 0, n, a, s)>>
       \/ \E info \in BindingArgs : script = <<info>>

NextEngine == ScriptedCall("main")

SpecEngine == InitEngine /\ [][NextEngine]_vars

\* A stream checksummed in two calls
InitChain ==
    /\ Loaded
    /\ \E p \in Streams, n \in 1..(MaxStream - 1), a \in AddrOffsets,
          b \in AddrOffsets :
          \E m \in 1..(MaxStream - n) :
              script = <<BufferArgs(FALSE, p, 0, n, a, JsUndefined),
                         BufferArgs(FALSE, p, n, m, b, JsChained)>>

NextChain == ScriptedCall("main") \/ ChainedCall("main")

SpecChain == InitChain /\ [][NextChain]_vars

-----------------------------------------------------------------------------
(* Properties                                                              *)

\* the last call was given a buffer and returned
BufferCall ==
    /\ call.status = "returned"
    /\ Len(call.info) >= 2
    /\ call.info[2].type = "buffer"

CallBuf == call.info[2]
CallLen == Len(call.info[2].bytes)
SwCall == BufferCall /\ call.engine = "sw"

\* C1: where the hardware engine is available, a buffer's checksum is the
\* same whichever engine calculateCrc was told to use: the value returned
\* is both swCrc32c's and hwCrc32c's for the call's seed and bytes.
C1_CrossPathEquivalence ==
    (isSSE42Available /\ BufferCall) =>
        /\ call.value = swCrc32c(call.initCrc, CallBuf, CallLen)
        /\ call.value = hwCrc32c(call.initCrc, CallBuf, CallLen)

C1_Witness ==
    /\ isSSE42Available /\ BufferCall
    /\ call.engine = "hw"
    /\ call.initCrc = AllOnes
    /\ CallLen = MaxLen
    /\ CallBuf.addr = 3

\* C2: with seed 0, swCrc32c over the nine bytes "123456789" returns
\* 0xE3069283.
C2_KnownVector ==
    (SwCall /\ call.initCrc = U32(0) /\ CallBuf.bytes = Stream("digits", 0, 9))
        => call.value = CheckValue

\* C2 on the little-endian hosts
C2_LittleEndian == host.bigEndian \/ C2_KnownVector

C2_LittleEndianWitness ==
    /\ ~host.bigEndian /\ SwCall /\ call.initCrc = U32(0)
    /\ CallBuf.bytes = Stream("digits", 0, 9) /\ CallBuf.addr = 0

WholeStream ==
    swCrc32c(U32(0),
             [addr |-> prev.info[2].addr,
              bytes |-> prev.info[2].bytes \o call.info[2].bytes],
             Len(prev.info[2].bytes) + Len(call.info[2].bytes))

\* the last call continued the call before it: both on non-empty buffers,
\* the first seeded with 0, the second with the first one's result
ChainedPair ==
    /\ prev.status = "returned" /\ prev.engine = "sw"
    /\ SwCall
    /\ prev.initCrc = U32(0) /\ call.initCrc = prev.value
    /\ Len(prev.info[2].bytes) > 0 /\ CallLen > 0

\* C4: chaining two calls over A then B gives the checksum of one call over
\* A ++ B.
C4_ChainingLaw == ChainedPair => call.value = WholeStream

\* C4 on the little-endian hosts
C4_LittleEndian == host.bigEndian \/ C4_ChainingLaw

C4_LittleEndianWitness ==
    /\ ~host.bigEndian /\ ChainedPair
    /\ Len(prev.info[2].bytes) = 1 /\ CallLen = MaxStream - 1
    /\ CallBuf.addr = 1

\* swCrc32c taking every byte through the one-byte step
ByteAtATime(initialCrc, buf, len) ==
    LET s1 == [Entry(initialCrc, buf, len) EXCEPT !.crc = Xor64(@, Ones64)]
    IN  IF len = 0 THEN initialCrc
        ELSE Narrow(Xor64(TailLoop(buf, s1).crc, Ones64))

\* C5: the value swCrc32c returns for a seed and a buffer's bytes is the
\* same at every address offset 0..7, and is the byte-at-a-time value.
C5_AlignmentInvariance ==
    SwCall =>
        /\ \A a \in AddrOffsets :
               swCrc32c(call.initCrc, [CallBuf EXCEPT !.addr = a], CallLen)
                   = call.value
        /\ call.value = ByteAtATime(call.initCrc, CallBuf, CallLen)

\* C5 on the little-endian hosts
C5_LittleEndian == host.bigEndian \/ C5_AlignmentInvariance

C5_LittleEndianWitness ==
    /\ ~host.bigEndian /\ SwCall /\ CallLen = MaxLen /\ CallBuf.addr = 5

\* C6: swCrc32c returns the value a little-endian build returns, and a
\* big-endian build the same one.
C6_ByteOrderIndependence ==
    SwCall =>
        /\ call.value = Narrow(swRunOn(FALSE, call.initCrc, CallBuf, CallLen).crc)
        /\ call.value = Narrow(swRunOn(TRUE, call.initCrc, CallBuf, CallLen).crc)

\* C7: on a buffer, calculateCrc runs the hardware engine exactly when
\* useHardwareCrc is true and the software engine exactly when it is false,
\* whatever the capability flag says.
C7_DispatchWithoutFallback ==
    BufferCall =>
        /\ call.engine = "hw" <=> call.info[1].value = TRUE
        /\ call.engine = "sw" <=> call.info[1].value = FALSE

C7_Witness ==
    /\ BufferCall
    /\ ~isSSE42Available
    /\ call.info[1].value = TRUE
    /\ call.engine = "hw"

\* the last call was given a boolean, a string and at most a number, and
\* returned
TextCall ==
    /\ call.status = "returned"
    /\ Len(call.info) >= 2
    /\ call.info[1].type = "boolean"
    /\ call.info[2].type = "string"

\* C8: given text, calculateCrc returns what it returns for a buffer holding
\* the text's encoded bytes, seeded alike.
C8_TextInput ==
    TextCall =>
        /\ call.strInput = Utf8Value(call.info[2].text)
        /\ call.value \in
               { o.value : o \in OnBuffer(call.info[1].value, call.initCrc,
                                          JsBuffer(0, call.strInput)) }

\* C9: once an initCrcTable run has finished, crc32cTable holds the built
\* contents, and no step changes it: not a call, not another environment's
\* initialisation at any point of its two loops.
C9_TableImmutable ==
    [][InitFinished => (crc32cTable = BuiltTable /\ crc32cTable' = crc32cTable)]_vars

C9_Witness ==
    /\ pc["main"] = "ready"
    /\ pc["worker"] = "loop2" /\ pos["worker"] > 0
    /\ call.env = "main" /\ call.lookups > 0

\* C10: a call that looked anything up in crc32cTable was made after an
\* initCrcTable run had finished, with all eight rows filled.
C10_InitBeforeUse ==
    call.lookups > 0 => (call.initFinished /\ call.tableBuilt)

C10_Witness ==
    /\ call.env = "worker" /\ call.lookups > 0
    /\ pc["main"] = "loop1"

=============================================================================
